---- MODULE Spec2Model ----
(***************************************************************************)
(* Model of PreprocessingUtils (src/src/utils/general_utils.py).           *)
(*                                                                         *)
(* The class is stateless: every method is a call on tables handed in by   *)
(* the caller.  A behaviour of the model is one call: Init draws the       *)
(* method and its arguments (and what the outside world answers: the file  *)
(* read, the remote fetch), the method's action runs the whole method and  *)
(* leaves the caller's objects, the return value, the raised error, the    *)
(* console output and the report file in the state.                        *)
(*                                                                         *)
(* Python strings that the code inspects character by character (split,    *)
(* replace, regex, substring, sort) are sequences of one-character         *)
(* strings; strings only compared for equality stay TLA+ strings.          *)
(* A float `value` is an exact dyadic rational [m, e] = m / 2^e.           *)
(***************************************************************************)
EXTENDS Integers, Sequences, FiniteSets

VARIABLES op, pc, inp, arg, ret, exc, msg, fs, out

vars == <<op, pc, inp, arg, ret, exc, msg, fs, out>>

(***************************************************************************)
(* Bounds of the model.                                                    *)
(***************************************************************************)
MaxRows == 2

MaxTokens == 2

(***************************************************************************)
(* Python str operations on character sequences.                           *)
(***************************************************************************)
NoValue == [kind |-> "None"]

\* k in x
Contains(x, k) ==
    \E i \in 1..(Len(x) - Len(k) + 1) : SubSeq(x, i, i + Len(k) - 1) = k

\* any(k in x for k in ks)
AnyIn(x, ks) == \E j \in DOMAIN ks : Contains(x, ks[j])

Digit(d) == <<"0", "1", "2", "3", "4", "5", "6", "7", "8", "9">>[d + 1]

RECURSIVE NatStr(_)
NatStr(n) == IF n < 10 THEN <<Digit(n)>> ELSE NatStr(n \div 10) \o <<Digit(n % 10)>>

\* str(n) of an int / Series.astype(str) of an integer column
IntStr(n) == IF n < 0 THEN <<"-">> \o NatStr(-n) ELSE NatStr(n)

\* s.split(c) for a one-character separator c
RECURSIVE Split(_, _)
Split(s, c) ==
    IF \A i \in DOMAIN s : s[i] # c
    THEN <<s>>
    ELSE LET i == CHOOSE k \in DOMAIN s : s[k] = c /\ \A j \in 1..(k - 1) : s[j] # c
         IN  <<SubSeq(s, 1, i - 1)>> \o Split(SubSeq(s, i + 1, Len(s)), c)

\* c.join(ts)
RECURSIVE Join(_, _)
Join(ts, c) ==
    IF Len(ts) = 0 THEN <<>>
    ELSE IF Len(ts) = 1 THEN ts[1]
    ELSE ts[1] \o <<c>> \o Join(Tail(ts), c)

StartsWith(s, p) == Len(s) >= Len(p) /\ SubSeq(s, 1, Len(p)) = p

\* s.replace(old, new): every non-overlapping occurrence, left to right
RECURSIVE Replace(_, _, _)
Replace(s, old, new) ==
    IF Len(s) < Len(old) THEN s
    ELSE IF StartsWith(s, old)
         THEN new \o Replace(SubSeq(s, Len(old) + 1, Len(s)), old, new)
         ELSE <<s[1]>> \o Replace(Tail(s), old, new)

\* the characters of the model in code-point order
CodePoints ==
    <<"\n", "-", ".", "/", "0", "1", "2", "3", "4", "5", "6", "7", "8",
      "9", ":", "A", "B", "C", "D", "E", "F", "G", "H", "I", "J", "K",
      "L", "M", "N", "O", "P", "Q", "R", "S", "T", "U", "V", "W", "X",
      "Y", "Z", "_", "a", "b", "c", "d", "e", "f", "g", "h", "i", "j",
      "k", "l", "m", "n", "o", "p", "q", "r", "s", "t", "u", "v", "w",
      "x", "y", "z", "|">>

Ord(c) == CHOOSE i \in DOMAIN CodePoints : CodePoints[i] = c

\* a < b on str: lexicographic by code point
RECURSIVE StrLess(_, _)
StrLess(a, b) ==
    IF Len(b) = 0 THEN FALSE
    ELSE IF Len(a) = 0 THEN TRUE
    ELSE IF a[1] = b[1] THEN StrLess(Tail(a), Tail(b))
    ELSE Ord(a[1]) < Ord(b[1])

\* a slip: sorted(S, reverse=True)
RECURSIVE Sorted_reverse(_)
Sorted_reverse(S) ==
    IF S = {} THEN <<>>
    ELSE LET m == CHOOSE x \in S : \A y \in S \ {x} : StrLess(y, x)
         IN  <<m>> \o Sorted_reverse(S \ {m})

\* sorted(S) of a set of str
RECURSIVE Sorted(_)
Sorted(S) ==
    IF S = {} THEN <<>>
    ELSE LET m == CHOOSE x \in S : \A y \in S \ {x} : StrLess(x, y)
         IN  <<m>> \o Sorted(S \ {m})

Range(f) == {f[i] : i \in DOMAIN f}

Field(r, name, default) == IF name \in DOMAIN r THEN r[name] ELSE default

\* a DataFrame cell holding a string, and the missing cell
Str(s) == [isna |-> FALSE, s |-> s]

NaN == [isna |-> TRUE, s |-> <<>>]

(***************************************************************************)
(* Float values as dyadic rationals m / 2^e, kept normalised               *)
(* (e = 0, or m odd).                                                      *)
(***************************************************************************)
Float(n) == [m |-> n, e |-> 0]

Zero == Float(0)

\* v * 0.5
Half(v) == IF v.m % 2 = 0 THEN [m |-> v.m \div 2, e |-> v.e]
                          ELSE [m |-> v.m, e |-> v.e + 1]

(***************************************************************************)
(* The time-period constants of cb_config (`from cb_config import *`).     *)
(* TX_START is the first time period of the transformations, TIME_PERIOD_0 *)
(* the calendar year of time period 0.  The methods only compare with and  *)
(* add these numbers; the model takes a small TX_START so that the time    *)
(* periods of its tables lie on both sides of it.                          *)
(***************************************************************************)
SSP_GLOBAL_TIME_PERIOD_0 == 2015

SSP_GLOBAL_TIME_PERIOD_TX_START == 2

(***************************************************************************)
(* perform_postprocessing                                                  *)
(***************************************************************************)
K_congestion == <<"c", "o", "n", "g", "e", "s", "t", "i", "o", "n">>

K_road_safety == <<"r", "o", "a", "d", "_", "s", "a", "f", "e", "t", "y">>

K_waso == <<"c", "b", ":", "w", "a", "s", "o", ":", "t", "e", "c", "h", "n", "i", "c", "a", "l", "_", "c", "o", "s", "t", ":", "w", "a", "s", "t", "e", "_", "m", "a", "n", "a", "g", "e", "m", "e", "n", "t">>

S_shifted == <<"_", "s", "h", "i", "f", "t", "e", "d">>

TransportKeys == <<K_congestion, K_road_safety>>

WasoKeys == <<K_waso>>

\* a slip: the variable is compared with the keyword instead of searched for it
RowMask_equal(df, code, keys) ==
    {i \in DOMAIN df : df[i].strategy_code = code
                        /\ \E j \in DOMAIN keys : df[i].variable = keys[j]}

\* (df["strategy_code"] == code) & df["variable"].apply(lambda x: any(k in x for k in keys))
RowMask(df, code, keys) ==
    {i \in DOMAIN df : df[i].strategy_code = code /\ AnyIn(df[i].variable, keys)}

\* df.loc[mask, "value"] = v
SetValue(df, mask, v) ==
    [i \in DOMAIN df |-> IF i \in mask THEN [df[i] EXCEPT !.value = v] ELSE df[i]]

\* df.loc[mask, "value"] *= 0.5
HalveValue(df, mask) ==
    [i \in DOMAIN df |-> IF i \in mask THEN [df[i] EXCEPT !.value = Half(@)] ELSE df[i]]

\* rules 1-3: the transport and waste corrections
ValueCorrections(df) ==
    LET cond_transport_cb_issues_better_base == RowMask(df, "PFLO:BETTER_BASE", TransportKeys)
        cond_transport_cb_issues_supply_side_tech == RowMask(df, "PFLO:SUPPLY_SIDE_TECH", TransportKeys)
        df1 == SetValue(df, cond_transport_cb_issues_better_base, Zero)
        df2 == SetValue(df1, cond_transport_cb_issues_supply_side_tech, Zero)
        cond_cut_ben_in_half_all_plur == RowMask(df2, "PFLO:ALL_PLUR", TransportKeys)
        cond_cut_ben_in_half_all_non_stopping_def_plur ==
            RowMask(df2, "PFLO:ALL_NO_STOPPING_DEFORESTATION_PLUR", TransportKeys)
        df3 == HalveValue(df2, cond_cut_ben_in_half_all_plur)
        df4 == HalveValue(df3, cond_cut_ben_in_half_all_non_stopping_def_plur)
        cond_waso_cb_issue == RowMask(df4, "PFLO:SUPPLY_SIDE_TECH", WasoKeys)
    IN  SetValue(df4, cond_waso_cb_issue, Zero)

IsPre(r) == r.time_period < SSP_GLOBAL_TIME_PERIOD_TX_START

\* a slip: the shifted variable carries time_period without TIME_PERIOD_0
ShiftedRow_no_period_0(r) ==
    [r EXCEPT !.variable = @ \o S_shifted \o IntStr(r.time_period),
              !.time_period = @ + SSP_GLOBAL_TIME_PERIOD_TX_START]

\* a slip: the shifted variable loses the original name
ShiftedRow_drop_name(r) ==
    [r EXCEPT !.variable = S_shifted \o IntStr(r.time_period + SSP_GLOBAL_TIME_PERIOD_0),
              !.time_period = @ + SSP_GLOBAL_TIME_PERIOD_TX_START]

\* the renamed, shifted copy of one early row
ShiftedRow(r) ==
    [r EXCEPT !.variable = @ \o S_shifted \o IntStr(r.time_period + SSP_GLOBAL_TIME_PERIOD_0),
              !.time_period = @ + SSP_GLOBAL_TIME_PERIOD_TX_START]

\* df.loc[df["time_period"] < TX_START, "value"] = 0
ZeroEarly(df) == SetValue(df, {i \in DOMAIN df : IsPre(df[i])}, Zero)

\* a slip: the early rows are zeroed before the shifted copies are appended
TimeShift_zero_before_concat(df) ==
    LET pre == SelectSeq(df, IsPre)
        res_pre2025 == [i \in DOMAIN pre |-> ShiftedRow(pre[i])]
    IN  ZeroEarly(df) \o res_pre2025

\* rule 4: the time shift
TimeShift(df) ==
    LET pre == SelectSeq(df, IsPre)
        res_pre2025 == [i \in DOMAIN pre |-> ShiftedRow(pre[i])]
    IN  ZeroEarly(df \o res_pre2025)

\* the whole method: the caller's table after the call, and the table returned.
\* df is a copy, so the caller's table keeps its rows.
perform_postprocessing(results_all_pp) ==
    LET df == results_all_pp
    IN  [arg |-> results_all_pp, ret |-> TimeShift(ValueCorrections(df))]

(***************************************************************************)
(* remove_suffix_from_transformations                                      *)
(***************************************************************************)
suffixes_to_remove ==
    <<<<"_", "L", "O", "W">>,
      <<"_", "L", "O", "W", "E", "S", "T">>,
      <<"_", "H", "I", "G", "H", "E", "S", "T">>,
      <<"_", "H", "I", "G", "H", "E", "R">>,
      <<"_", "H", "I", "G", "H">>,
      <<"_", "L", "O", "W", "E", "R">>,
      <<"_", "F", "R", "O", "M", "T", "E", "C", "H">>,
      <<"_", "U", "R", "B", "P", "L", "A", "N">>>>

\* `$`: the positions a match may end at: the end of the string, and just
\* before a newline that ends it
Ends(x) == {Len(x)} \cup (IF Len(x) > 0 /\ x[Len(x)] = "\n" THEN {Len(x) - 1} ELSE {})

\* the matches of (suffix|...)$ in x: <<start, alternative>>
SuffixMatches(x) ==
    {m \in UNION {{<<e - Len(suffixes_to_remove[j]) + 1, j>> : e \in Ends(x)} :
                    j \in DOMAIN suffixes_to_remove} :
        /\ m[1] >= 1
        /\ SubSeq(x, m[1], m[1] + Len(suffixes_to_remove[m[2]]) - 1) = suffixes_to_remove[m[2]]}

\* re.sub(pattern, '', x): the leftmost match, its first alternative, is
\* removed; nothing after it can match
SubPattern(x) ==
    LET matches == SuffixMatches(x)
    IN  IF matches = {} THEN x
        ELSE LET m == CHOOSE a \in matches :
                        \A b \in matches : a[1] < b[1] \/ (a[1] = b[1] /\ a[2] <= b[2])
                 e == m[1] + Len(suffixes_to_remove[m[2]]) - 1
             IN  SubSeq(x, 1, m[1] - 1) \o SubSeq(x, e + 1, Len(x))

clean_transformation_specification(specification) ==
    LET transformations == Split(specification, "|")
        cleaned_transformations ==
            [i \in DOMAIN transformations |-> SubPattern(transformations[i])]
    IN  Join(cleaned_transformations, "|")

\* the whole method; a missing specification is a float and has no split
remove_suffix_from_transformations(attr_df) ==
    IF \E i \in DOMAIN attr_df : attr_df[i].transformation_specification.isna
    THEN [arg |-> attr_df, ret |-> NoValue, exc |-> "AttributeError"]
    ELSE [arg |-> attr_df,
          ret |-> [kind |-> "df",
                   rows |-> [i \in DOMAIN attr_df |->
                       [attr_df[i] EXCEPT !.transformation_specification =
                           Str(clean_transformation_specification(@.s))]]],
          exc |-> "none"]

(***************************************************************************)
(* get_default_transformation_codes                                        *)
(***************************************************************************)
TFR_BASE == <<"T", "F", "R", ":", "B", "A", "S", "E">>

TFR_ == <<"T", "F", "R", ":">>

TX_ == <<"T", "X", ":">>

\* list.remove(x): the first occurrence only
ListRemove(l, x) ==
    LET i == CHOOSE k \in DOMAIN l : l[k] = x /\ \A j \in 1..(k - 1) : l[j] # x
    IN  SubSeq(l, 1, i - 1) \o SubSeq(l, i + 1, Len(l))

\* the whole method; transformer_df None (a failed fetch) cannot be indexed
get_default_transformation_codes(transformer_df) ==
    IF transformer_df.kind = "None"
    THEN [arg |-> transformer_df, ret |-> NoValue, exc |-> "TypeError"]
    ELSE LET column_names == transformer_df.transformer_code
             removed == IF \E i \in DOMAIN column_names : column_names[i] = TFR_BASE
                        THEN ListRemove(column_names, TFR_BASE)
                        ELSE column_names
         IN  [arg |-> transformer_df,
              ret |-> [kind |-> "list",
                       items |-> [i \in DOMAIN removed |-> Replace(removed[i], TFR_, TX_)]],
              exc |-> "none"]

(***************************************************************************)
(* check_missing_transformations                                           *)
(***************************************************************************)
output_path == "debug/missing_transformations_report.csv"

\* set(val for row in series.dropna() for val in row.split('|'))
SpecTokens(attributes_df) ==
    UNION {Range(Split(attributes_df[i].transformation_specification.s, "|")) :
            i \in {j \in DOMAIN attributes_df :
                    ~attributes_df[j].transformation_specification.isna}}

\* the whole method: nothing returned, prints, and the report written when
\* transformations are missing
check_missing_transformations(attributes_df, transformation_cost_definitions) ==
    LET experiment_transformations == SpecTokens(attributes_df)
        tf_costs_transformations == Range(transformation_cost_definitions.transformation_code)
        missing_transformations ==
            Sorted(experiment_transformations \ tf_costs_transformations)
    IN  IF missing_transformations # <<>>
        THEN [arg |-> [attributes_df |-> attributes_df,
                       transformation_cost_definitions |-> transformation_cost_definitions],
              ret |-> NoValue,
              exc |-> "none",
              out |-> <<[msg |-> "missing", data |-> missing_transformations],
                        [msg |-> "saved", data |-> <<>>]>>,
              fs  |-> <<[path |-> output_path,
                         column |-> "missing_transformations",
                         rows |-> missing_transformations]>>]
        ELSE [arg |-> [attributes_df |-> attributes_df,
                       transformation_cost_definitions |-> transformation_cost_definitions],
              ret |-> NoValue,
              exc |-> "none",
              out |-> <<[msg |-> "ok", data |-> <<>>]>>]

(***************************************************************************)
(* fetch_csv_from_github                                                   *)
(***************************************************************************)
U_blob == <<"/", "b", "l", "o", "b", "/">>

U_slash == <<"/">>

U_github == <<"g", "i", "t", "h", "u", "b", ".", "c", "o", "m">>

U_raw == <<"r", "a", "w", ".", "g", "i", "t", "h", "u", "b", "u", "s", "e", "r", "c", "o", "n", "t", "e", "n", "t", ".", "c", "o", "m">>

\* pd.read_csv(raw_url): the answer of the remote side.  An unreachable
\* host, a file without data and a file that does not parse raise; a file
\* with a header parses to a table, possibly with no rows.
ReadCsvError(remote) ==
    CASE remote.kind = "unreachable" -> "URLError"
      [] remote.kind = "nodata" -> "EmptyDataError"
      [] remote.kind = "malformed" -> "ParserError"
      [] OTHER -> "none"

\* the body of the try block: the table, or the error raised in it
FetchTry(raw_url, remote) ==
    IF ReadCsvError(remote) # "none"
    THEN [ret |-> NoValue, exc |-> ReadCsvError(remote)]
    ELSE IF Len(remote.transformer_code) = 0
    THEN [ret |-> NoValue, exc |-> "ValueError"]
    ELSE [ret |-> remote, exc |-> "none"]

\* the whole method: `except Exception` takes every error of the try block,
\* the ValueError of the empty table included
fetch_csv_from_github(url, remote) ==
    LET raw_url == Replace(Replace(url, U_blob, U_slash), U_github, U_raw)
        body == FetchTry(raw_url, remote)
    IN  IF body.exc # "none"
        THEN [ret |-> NoValue, exc |-> "none",
              out |-> <<[msg |-> "error", url |-> raw_url, error |-> body.exc]>>]
        ELSE [ret |-> body.ret, exc |-> "none",
              out |-> <<[msg |-> "success", url |-> raw_url, error |-> "none"]>>]

(***************************************************************************)
(* build_attribute_strategy_code                                           *)
(***************************************************************************)
\* a slip: any record of the strategy counts, not the first one
StrategyTransformations_any(attr_data_df, strategy_code) ==
    UNION {Range(Split(attr_data_df[i].transformation_specification.s, "|")) :
            i \in {j \in DOMAIN attr_data_df :
                    /\ attr_data_df[j].strategy_code = strategy_code
                    /\ ~attr_data_df[j].transformation_specification.isna}}

\* the transformations the loop body finds for one strategy: those of the
\* first record of the strategy (iloc[0]), none when the strategy has no
\* record or that record's specification is missing
StrategyTransformations(attr_data_df, strategy_code) ==
    LET strategy_row == SelectSeq(attr_data_df, LAMBDA r : r.strategy_code = strategy_code)
    IN  IF Len(strategy_row) = 0 THEN {}
        ELSE LET transformations == strategy_row[1].transformation_specification
             IN  IF transformations.isna THEN {}
                 ELSE Range(Split(transformations.s, "|"))

\* the table after the loop: a cell is set by df.loc[df['strategy_code'] ==
\* strategy_code, transformation] = 1 for the transformations of the
\* strategy that are column names
StrategyMatrix(strategies_list, column_names, attr_data_df) ==
    [i \in DOMAIN strategies_list |->
        [strategy_code |-> strategies_list[i],
         cells |-> [j \in DOMAIN column_names |->
            IF column_names[j] \in StrategyTransformations(attr_data_df, strategies_list[i])
            THEN 1 ELSE 0]]]

\* the whole method
build_attribute_strategy_code(url, strategies_list, attr_data_df, remote) ==
    LET fetched == fetch_csv_from_github(url, remote)
        codes == get_default_transformation_codes(fetched.ret)
    IN  IF codes.exc # "none"
        THEN [ret |-> NoValue, exc |-> codes.exc, out |-> fetched.out]
        ELSE [ret |-> [kind |-> "df",
                       column_names |-> codes.ret.items,
                       rows |-> StrategyMatrix(strategies_list, codes.ret.items, attr_data_df)],
              exc |-> "none",
              out |-> fetched.out]

(***************************************************************************)
(* load_parameters_from_yaml                                               *)
(***************************************************************************)
required_keys ==
    <<"country_id", "attr_primary_file_name", "attr_strategy_file_name",
      "ssp_output_data_file_name", "comparison_strategy_code",
      "transformation_names_url">>

\* `key not in params` raises for None and for a number
NotIterable(params) == params.kind \in {"None", "int"}

\* key in params: a key of a mapping, an item of a list
KeyIn(key, params) ==
    CASE params.kind = "dict" -> key \in DOMAIN params.map
      [] params.kind = "list" -> key \in Range(params.items)
      [] OTHER -> FALSE

\* [key for key in required_keys if key not in params]
MissingKeys(params) == SelectSeq(required_keys, LAMBDA key : ~KeyIn(key, params))

\* the whole method.  file is what open() and yaml.safe_load find at
\* yaml_file_path: no file, a text that does not parse, or the parsed value
load_parameters_from_yaml(yaml_file_path, file) ==
    IF file.kind = "missing"
    THEN [ret |-> NoValue, exc |-> "FileNotFoundError",
          msg |-> [text |-> "not found", names |-> <<yaml_file_path>>]]
    ELSE IF file.kind = "unparsable"
    THEN [ret |-> NoValue, exc |-> "ValueError",
          msg |-> [text |-> "Error parsing YAML file", names |-> <<>>]]
    ELSE LET params == file.params
         IN  IF NotIterable(params)
             THEN [ret |-> NoValue, exc |-> "TypeError",
                   msg |-> [text |-> "not iterable", names |-> <<>>]]
             ELSE IF MissingKeys(params) # <<>>
             THEN [ret |-> NoValue, exc |-> "ValueError",
                   msg |-> [text |-> "Missing required parameters in YAML file",
                            names |-> MissingKeys(params)]]
             ELSE IF params.kind # "dict"
             THEN [ret |-> NoValue, exc |-> "TypeError",
                   msg |-> [text |-> "list indices must be integers", names |-> <<>>]]
             ELSE [ret |-> [kind |-> "dict",
                            map |-> [key \in Range(required_keys) |-> params.map[key]]],
                   exc |-> "none"]

(***************************************************************************)
(* Inputs.                                                                 *)
(***************************************************************************)
V_congestion_benefit == <<"c", "o", "n", "g", "e", "s", "t", "i", "o", "n", "_", "b", "e", "n", "e", "f", "i", "t">>

V_road_safety == <<"x", "_", "r", "o", "a", "d", "_", "s", "a", "f", "e", "t", "y">>

V_road == <<"r", "o", "a", "d">>

StrategyCodes == {"PFLO:BETTER_BASE", "PFLO:SUPPLY_SIDE_TECH", "PFLO:ALL_PLUR",
                  "PFLO:ALL_NO_STOPPING_DEFORESTATION_PLUR", "PFLO:OTHER"}

Variables == {V_congestion_benefit, V_road_safety, K_waso, V_road}

TimePeriods == {-1, SSP_GLOBAL_TIME_PERIOD_TX_START - 1, SSP_GLOBAL_TIME_PERIOD_TX_START}

Values == {Float(7)}

ResultRows == [strategy_code : StrategyCodes, variable : Variables,
               time_period : TimePeriods, value : Values]

SeqsUpTo(S, n) == UNION {[1..k -> S] : k \in 0..n}

ResultTables == SeqsUpTo(ResultRows, MaxRows)

T_A_LOWEST == <<"T", "X", ":", "A", "_", "L", "O", "W", "E", "S", "T">>

T_A_LOW_HIGH == <<"T", "X", ":", "A", "_", "L", "O", "W", "_", "H", "I", "G", "H">>

T_B == <<"T", "X", ":", "B">>

SuffixTokens == {T_A_LOWEST, T_A_LOW_HIGH, T_B}

\* '|'-joined specifications of 1..n tokens
SpecsOf(tokens, n) == {Join(ts, "|") : ts \in UNION {[1..k -> tokens] : k \in 1..n}}

SuffixAttrRows ==
    [strategy_code : {"S1"},
     transformation_specification :
        {NaN} \cup {Str(x) : x \in SpecsOf(SuffixTokens, MaxTokens)}]

SuffixAttrTables == SeqsUpTo(SuffixAttrRows, MaxRows)

C_TFR_A == <<"T", "F", "R", ":", "A">>

C_X_TFR_B == <<"X", ":", "T", "F", "R", ":", "B">>

TransformerCodes == {TFR_BASE, C_TFR_A, C_X_TFR_B}

TransformerTables ==
    {[kind |-> "df", transformer_code |-> c] : c \in SeqsUpTo(TransformerCodes, MaxRows)}

T_B_AB == <<"B", "|", "A", "B">>

T_A_C == <<"A", "|", "C">>

T_only_B == <<"B">>

CheckAttrRows ==
    [strategy_code : {"S1"},
     transformation_specification : {NaN, Str(T_B_AB), Str(T_A_C), Str(T_only_B)}]

CostCodes == {<<"A">>, <<"C">>, <<"B">>}

CostDefinitions ==
    {[kind |-> "df", transformation_code |-> c] : c \in SeqsUpTo(CostCodes, MaxRows)}

CheckInputs ==
    [attributes_df : SeqsUpTo(CheckAttrRows, MaxRows),
     transformation_cost_definitions : CostDefinitions]

Url_blob == <<"g", "i", "t", "h", "u", "b", ".", "c", "o", "m", "/", "o", "/", "r", "/", "b", "l", "o", "b", "/", "m", "/", "t", ".", "c", "s", "v">>

Url_raw == <<"r", "a", "w", ".", "g", "i", "t", "h", "u", "b", "u", "s", "e", "r", "c", "o", "n", "t", "e", "n", "t", ".", "c", "o", "m", "/", "o", "/", "r", "/", "m", "/", "t", ".", "c", "s", "v">>

Urls == {Url_blob, Url_raw}

C_TFR_B == <<"T", "F", "R", ":", "B">>

C_TFR_C == <<"T", "F", "R", ":", "C">>

Remotes ==
    {[kind |-> "unreachable", transformer_code |-> <<>>],
     [kind |-> "nodata", transformer_code |-> <<>>],
     [kind |-> "malformed", transformer_code |-> <<>>],
     [kind |-> "df", transformer_code |-> <<>>],
     [kind |-> "df", transformer_code |-> <<TFR_BASE, C_TFR_A, C_TFR_B, C_TFR_C>>],
     [kind |-> "df", transformer_code |-> <<C_TFR_A, TFR_BASE, C_TFR_A>>]}

FetchInputs == [url : Urls, remote : Remotes]

T_TXA_TXB == <<"T", "X", ":", "A", "|", "T", "X", ":", "B">>

T_TXC_TXZ == <<"T", "X", ":", "C", "|", "T", "X", ":", "Z">>

BuildStrategies == {"S1", "S2"}

BuildAttrRows ==
    [strategy_code : BuildStrategies,
     transformation_specification : {NaN, Str(T_TXA_TXB), Str(T_TXC_TXZ)}]

BuildRemotes == {r \in Remotes : r.kind # "nodata" /\ r.kind # "malformed"}

BuildInputs ==
    [url : {Url_blob},
     strategies_list : SeqsUpTo(BuildStrategies, MaxRows),
     attr_data_df : SeqsUpTo(BuildAttrRows, MaxRows),
     remote : BuildRemotes]

ExtraKey == "notes"

\* the mappings a configuration file can hold: any of the required keys
\* and the extra one, each with the file's value for it
YamlDicts ==
    {[kind |-> "dict", map |-> [key \in ks |-> <<key, v>>]] :
        ks \in SUBSET (Range(required_keys) \cup {ExtraKey}), v \in {1, 2}}

YamlFiles ==
    {[kind |-> "missing"], [kind |-> "unparsable"]}
    \cup {[kind |-> "parsed", params |-> x] :
            x \in YamlDicts \cup {[kind |-> "None"], [kind |-> "int"],
                                  [kind |-> "list", items |-> <<>>],
                                  [kind |-> "list", items |-> <<"country_id">>],
                                  [kind |-> "list", items |-> required_keys]}}

YamlInputs == [yaml_file_path : {"config.yaml"}, file : YamlFiles]

(***************************************************************************)
(* The state machine: one call per behaviour.                              *)
(***************************************************************************)
InitPP ==
    /\ op = "perform_postprocessing"
    /\ inp \in ResultTables

InitRS ==
    /\ op = "remove_suffix_from_transformations"
    /\ inp \in SuffixAttrTables

InitGD ==
    /\ op = "get_default_transformation_codes"
    /\ inp \in TransformerTables \cup {NoValue}

InitCM ==
    /\ op = "check_missing_transformations"
    /\ inp \in CheckInputs

InitFetch ==
    /\ op = "fetch_csv_from_github"
    /\ inp \in FetchInputs

InitBuild ==
    /\ op = "build_attribute_strategy_code"
    /\ inp \in BuildInputs

InitYaml ==
    /\ op = "load_parameters_from_yaml"
    /\ inp \in YamlInputs

Init ==
    /\ pc = "call"
    /\ ret = NoValue
    /\ exc = "none"
    /\ msg = NoValue
    /\ fs = <<>>
    /\ out = <<>>
    /\ \/ InitPP
       \/ InitRS
       \/ InitGD
       \/ InitCM
       \/ InitFetch
       \/ InitBuild
       \/ InitYaml
    /\ arg = inp

\* a call returns (pc = "done") or raises (pc = "raised", exc is the error,
\* msg what its message names); it may change the caller's objects, print
\* and write files
Outcome(r) ==
    /\ arg' = Field(r, "arg", arg)
    /\ ret' = r.ret
    /\ exc' = Field(r, "exc", "none")
    /\ msg' = Field(r, "msg", NoValue)
    /\ out' = out \o Field(r, "out", <<>>)
    /\ fs' = fs \o Field(r, "fs", <<>>)
    /\ pc' = IF Field(r, "exc", "none") = "none" THEN "done" ELSE "raised"
    /\ UNCHANGED <<op, inp>>

PerformPostprocessing ==
    /\ pc = "call"
    /\ op = "perform_postprocessing"
    /\ Outcome(perform_postprocessing(arg))

RemoveSuffixFromTransformations ==
    /\ pc = "call"
    /\ op = "remove_suffix_from_transformations"
    /\ Outcome(remove_suffix_from_transformations(arg))

GetDefaultTransformationCodes ==
    /\ pc = "call"
    /\ op = "get_default_transformation_codes"
    /\ Outcome(get_default_transformation_codes(arg))

CheckMissingTransformations ==
    /\ pc = "call"
    /\ op = "check_missing_transformations"
    /\ Outcome(check_missing_transformations(arg.attributes_df,
                                             arg.transformation_cost_definitions))

FetchCsvFromGithub ==
    /\ pc = "call"
    /\ op = "fetch_csv_from_github"
    /\ Outcome(fetch_csv_from_github(arg.url, arg.remote))

BuildAttributeStrategyCode ==
    /\ pc = "call"
    /\ op = "build_attribute_strategy_code"
    /\ Outcome(build_attribute_strategy_code(arg.url, arg.strategies_list,
                                             arg.attr_data_df, arg.remote))

LoadParametersFromYaml ==
    /\ pc = "call"
    /\ op = "load_parameters_from_yaml"
    /\ Outcome(load_parameters_from_yaml(arg.yaml_file_path, arg.file))

Next ==
    \/ PerformPostprocessing
    \/ RemoveSuffixFromTransformations
    \/ GetDefaultTransformationCodes
    \/ CheckMissingTransformations
    \/ FetchCsvFromGithub
    \/ BuildAttributeStrategyCode
    \/ LoadParametersFromYaml

Spec == Init /\ [][Next]_vars

(***************************************************************************)
(* Claims about perform_postprocessing.                                    *)
(***************************************************************************)
DonePP == op = "perform_postprocessing" /\ pc = "done"

\* w = 2 * v
IsDouble(w, v) == IF v.e > 0 THEN w = [m |-> v.m, e |-> v.e - 1]
                             ELSE w = [m |-> 2 * v.m, e |-> 0]

Transport(r) == Contains(r.variable, K_congestion) \/ Contains(r.variable, K_road_safety)

ZeroCase(r) ==
    \/ r.strategy_code \in {"PFLO:BETTER_BASE", "PFLO:SUPPLY_SIDE_TECH"} /\ Transport(r)
    \/ r.strategy_code = "PFLO:SUPPLY_SIDE_TECH" /\ Contains(r.variable, K_waso)

HalfCase(r) ==
    /\ r.strategy_code \in {"PFLO:ALL_PLUR", "PFLO:ALL_NO_STOPPING_DEFORESTATION_PLUR"}
    /\ Transport(r)

\* v is the value rules 1-3 give the input row r
IsCorrected(v, r) ==
    IF ZeroCase(r) THEN v = Zero
    ELSE IF HalfCase(r) THEN IsDouble(r.value, v)
    ELSE v = r.value

\* the input rows below TX_START, as positions in the input table, in order
EarlyRows(t) == SelectSeq([i \in DOMAIN t |-> i], LAMBDA i : IsPre(t[i]))

\* C1: after perform_postprocessing, every input row with time_period >=
\* TX_START is in the output at its position with value 0 in the zeroing
\* cases of rules 1 and 3, half its input value in the case of rule 2, and
\* its input value otherwise.
C1_Rules123 ==
    DonePP =>
        \A i \in DOMAIN inp :
            ~IsPre(inp[i]) =>
                /\ i \in DOMAIN ret
                /\ ret[i].strategy_code = inp[i].strategy_code
                /\ ret[i].variable = inp[i].variable
                /\ ret[i].time_period = inp[i].time_period
                /\ IsCorrected(ret[i].value, inp[i])

C1_Witness ==
    /\ DonePP
    /\ \E i, j \in DOMAIN inp :
        /\ ~IsPre(inp[i]) /\ ZeroCase(inp[i]) /\ ret[i].value = Zero
        /\ ~IsPre(inp[j]) /\ HalfCase(inp[j]) /\ ret[j].value = [m |-> 7, e |-> 1]

\* The parts of rule 4 that do not depend on the value of the duplicate:
\* originals kept in place and zeroed, one renamed and shifted duplicate per
\* early row appended after the originals, nothing else added.
ShiftShape ==
    LET early == EarlyRows(inp)
        n == Len(inp)
    IN  /\ Len(ret) = n + Len(early)
        /\ \A i \in DOMAIN inp :
            /\ ret[i].strategy_code = inp[i].strategy_code
            /\ ret[i].variable = inp[i].variable
            /\ ret[i].time_period = inp[i].time_period
            /\ IsPre(inp[i]) => ret[i].value = Zero
        /\ \A j \in DOMAIN early :
            LET r == inp[early[j]]
                d == ret[n + j]
            IN  /\ d.strategy_code = r.strategy_code
                /\ d.variable = r.variable \o S_shifted
                                   \o IntStr(r.time_period + SSP_GLOBAL_TIME_PERIOD_0)
                /\ d.time_period = r.time_period + SSP_GLOBAL_TIME_PERIOD_TX_START

\* C2 as stated: after perform_postprocessing every input row with
\* time_period < TX_START is in the output with value 0 and has exactly one
\* appended duplicate, renamed and shifted, whose value is the value the row
\* had after rules 1-3; the output has input rows + early rows rows.
C2_Original ==
    DonePP =>
        /\ ShiftShape
        /\ \A j \in DOMAIN EarlyRows(inp) :
            IsCorrected(ret[Len(inp) + j].value, inp[EarlyRows(inp)[j]])

\* C2 amended: the duplicate carries the value the row had after rules 1-3
\* only when its shifted time_period is >= TX_START; a duplicate whose
\* shifted time_period is still < TX_START (a negative input time_period)
\* has value 0, because the final zeroing runs over the concatenated table.
C2_TimeShift ==
    DonePP =>
        /\ ShiftShape
        /\ \A j \in DOMAIN EarlyRows(inp) :
            LET d == ret[Len(inp) + j]
            IN  IF d.time_period >= SSP_GLOBAL_TIME_PERIOD_TX_START
                THEN IsCorrected(d.value, inp[EarlyRows(inp)[j]])
                ELSE d.value = Zero

C2_Witness ==
    /\ DonePP
    /\ Len(inp) = 2
    /\ Len(ret) = 4
    /\ inp[1].time_period < 0
    /\ inp[2].time_period = SSP_GLOBAL_TIME_PERIOD_TX_START - 1
    /\ ret[3].value = Zero
    /\ ret[4].value = Float(7)
    /\ ret[2].value = Zero

\* C8 as stated: some input table gives a different output when rule 4 is
\* applied before rules 1-3 than in the implemented order.
C8_Original ==
    DonePP =>
        \E t \in ResultTables :
            ValueCorrections(TimeShift(t)) # perform_postprocessing(t).ret

\* C8 amended: for every input table the output of the implemented order
\* (rules 1-3, then rule 4) equals the output of rule 4 followed by rules
\* 1-3: on these rules the order makes no difference.
C8_OrderIrrelevant ==
    DonePP => ret = ValueCorrections(TimeShift(inp))

C8_Witness ==
    /\ DonePP
    /\ \E i \in DOMAIN inp :
        /\ inp[i].time_period = SSP_GLOBAL_TIME_PERIOD_TX_START - 1
        /\ HalfCase(inp[i])
        /\ ret # TimeShift(inp)
        /\ TimeShift(inp) # ValueCorrections(TimeShift(inp))

\* C10: after perform_postprocessing every output row with time_period <
\* TX_START has value 0, original or appended duplicate, also for negative
\* time periods; and the caller's table is as it was before the call.
C10_EarlyZero ==
    DonePP =>
        /\ \A i \in DOMAIN ret : IsPre(ret[i]) => ret[i].value = Zero
        /\ arg = inp

C10_Witness ==
    /\ DonePP
    /\ Len(inp) = 1
    /\ inp[1].time_period < 0
    /\ Len(ret) = 2
    /\ IsPre(ret[2])
    /\ ret[2].value = Zero
    /\ ~ZeroCase(inp[1])
    /\ arg = inp

(***************************************************************************)
(* Claims about remove_suffix_from_transformations.                        *)
(***************************************************************************)
\* C3: remove_suffix_from_transformations is idempotent: applying it to
\* the table it returned returns that same table.
C3_Idempotent ==
    (op = "remove_suffix_from_transformations" /\ pc = "done") =>
        remove_suffix_from_transformations(ret.rows).ret = ret

(***************************************************************************)
(* Claims about build_attribute_strategy_code.                             *)
(***************************************************************************)
DoneBuild == op = "build_attribute_strategy_code" /\ pc = "done"

\* c is a token of the specification of the attribute record r
HasToken(r, c) ==
    /\ ~r.transformation_specification.isna
    /\ \E k \in DOMAIN Split(r.transformation_specification.s, "|") :
        Split(r.transformation_specification.s, "|")[k] = c

\* one row per strategy of strategies_list in order, one column per known
\* code, every cell 0 or 1
MatrixShape ==
    /\ ret.column_names = get_default_transformation_codes(inp.remote).ret.items
    /\ Len(ret.rows) = Len(inp.strategies_list)
    /\ \A i \in DOMAIN ret.rows :
        /\ ret.rows[i].strategy_code = inp.strategies_list[i]
        /\ DOMAIN ret.rows[i].cells = DOMAIN ret.column_names
        /\ \A j \in DOMAIN ret.column_names : ret.rows[i].cells[j] \in {0, 1}

\* C4 as stated: the matrix has one row per strategy in list order and one
\* column per known code, and cell (s, c) is 1 exactly when some record of
\* the attribute table for s has a non-null specification with token c.
C4_Original ==
    DoneBuild =>
        /\ MatrixShape
        /\ \A i \in DOMAIN ret.rows : \A j \in DOMAIN ret.column_names :
            ret.rows[i].cells[j] = 1 <=>
                \E k \in DOMAIN inp.attr_data_df :
                    /\ inp.attr_data_df[k].strategy_code = inp.strategies_list[i]
                    /\ HasToken(inp.attr_data_df[k], ret.column_names[j])

\* C4 amended: cell (s, c) is 1 exactly when the first record of the
\* attribute table for s has a non-null specification with token c; later
\* records for the same strategy are not read.
C4_Matrix ==
    DoneBuild =>
        /\ MatrixShape
        /\ \A i \in DOMAIN ret.rows : \A j \in DOMAIN ret.column_names :
            ret.rows[i].cells[j] = 1 <=>
                \E k \in DOMAIN inp.attr_data_df :
                    /\ inp.attr_data_df[k].strategy_code = inp.strategies_list[i]
                    /\ \A l \in 1..(k - 1) :
                        inp.attr_data_df[l].strategy_code # inp.strategies_list[i]
                    /\ HasToken(inp.attr_data_df[k], ret.column_names[j])

C4_Witness ==
    /\ DoneBuild
    /\ inp.strategies_list = <<"S1", "S2">>
    /\ Len(inp.attr_data_df) = 2
    /\ inp.attr_data_df[1].strategy_code = "S1"
    /\ inp.attr_data_df[2].strategy_code = "S1"
    /\ inp.attr_data_df[1].transformation_specification = Str(T_TXA_TXB)
    /\ inp.attr_data_df[2].transformation_specification = Str(T_TXC_TXZ)
    /\ Len(ret.column_names) = 3
    /\ ret.rows[1].cells = <<1, 1, 0>>
    /\ ret.rows[2].cells = <<0, 0, 0>>

(***************************************************************************)
(* Claims about check_missing_transformations.                             *)
(***************************************************************************)
\* the list the call printed as missing, empty when it printed the OK line
Reported == IF out # <<>> /\ out[1].msg = "missing" THEN out[1].data ELSE <<>>

C6_FetchOutcomes ==
    (op = "fetch_csv_from_github" /\ pc # "call") =>
        IF inp.remote.kind # "df"
        THEN pc = "done" /\ ret = NoValue /\ out # <<>> /\ out[1].msg = "error"
        ELSE IF Len(inp.remote.transformer_code) = 0
        THEN pc = "raised" /\ exc = "ValueError"
        ELSE pc = "done" /\ ret = inp.remote

(***************************************************************************)
(* Claims about load_parameters_from_yaml.                                 *)
(***************************************************************************)
\* the file holds a mapping with key k
FileHasKey(k) ==
    /\ inp.file.kind = "parsed"
    /\ inp.file.params.kind = "dict"
    /\ k \in DOMAIN inp.file.params.map

\* C7: load_parameters_from_yaml either returns exactly the six required
\* keys with the file's values, or raises FileNotFoundError naming the path
\* for a missing file, or raises ValueError for an unparsable or incomplete
\* file (an empty file and a non-mapping included), naming every missing
\* required key; no other error escapes.
C7_LoadOutcomes ==
    (op = "load_parameters_from_yaml" /\ pc # "call") =>
        \/ /\ pc = "done"
           /\ ret.kind = "dict"
           /\ DOMAIN ret.map = Range(required_keys)
           /\ \A k \in Range(required_keys) :
                FileHasKey(k) /\ ret.map[k] = inp.file.params.map[k]
        \/ /\ pc = "raised"
           /\ exc = "FileNotFoundError"
           /\ inp.file.kind = "missing"
           /\ msg.names = <<inp.yaml_file_path>>
        \/ /\ pc = "raised"
           /\ exc = "ValueError"
           /\ inp.file.kind # "missing"
           /\ inp.file.kind = "parsed" =>
                /\ \E k \in Range(required_keys) : ~FileHasKey(k)
                /\ \A k \in Range(required_keys) :
                    ~FileHasKey(k) => k \in Range(msg.names)

(***************************************************************************)
(* Claims about get_default_transformation_codes.                          *)
(***************************************************************************)
\* what the claim says of one code: only a leading TFR: becomes TX:
PrefixRewritten(code) ==
    IF StartsWith(code, TFR_) THEN TX_ \o SubSeq(code, Len(TFR_) + 1, Len(code)) ELSE code

\* C9: get_default_transformation_codes returns the transformer_code
\* column in order, without any TFR:BASE entry, each remaining code with
\* only its leading TFR: replaced by TX:, and leaves the table unchanged.
C9_DefaultCodes ==
    (op = "get_default_transformation_codes" /\ pc = "done") =>
        LET kept == SelectSeq(inp.transformer_code, LAMBDA c : c # TFR_BASE)
        IN  /\ ret.items = [i \in DOMAIN kept |-> PrefixRewritten(kept[i])]
            /\ arg = inp

====
